---- MODULE Spec2Model ----
(***************************************************************************)
(* A model of plate.py: the Plate of reflective Cells, its addressing      *)
(* (closest_cell, sightline_cell), encode_plate and decode_plate.          *)
(*                                                                         *)
(* Numbers.  Points handed to the Plate (sources, cameras, keypoints) are  *)
(* integer lattice points <<x, y, z>>.  The point where a sightline        *)
(* crosses z = 0 is kept as an exact rational <<X, Y, D>>, standing for    *)
(* (X/D, Y/D, 0) with D > 0.  Directions (the results of unit_vector and   *)
(* find_mirror, the stored gradients) are fixed-point vectors with Scale   *)
(* units per 1.  Angles are in micro-radians.                              *)
(***************************************************************************)
EXTENDS Integers, Sequences, FiniteSets

VARIABLES
    ctor_args,      \* the arguments Plate(...) was called with
    plate,          \* the Plate's __start_x, __start_y, __size_x, __size_y
    cells,          \* the Plate's __cells: row-major sequence of Cells
    pc,             \* "new", "failed", "idle", "pulling", "pulled"
    new_gradients,  \* encode_plate's staging dict: cell position -> gradients
    rec,            \* the scene record encode_plate pulled last
    resolved,       \* sightline_cell's result for each keypoint of rec
    before,         \* every cell's gradients when the encode call began
    error,          \* what Plate(...) or the last encode_plate call raised
    result,         \* what the last query returned, until the caller takes it
    calls,          \* encode_plate calls begun
    pulls,          \* scene records pulled by the current encode call
    fed             \* scene records pulled by all the calls so far

vars == <<ctor_args, plate, cells, pc, new_gradients, rec, resolved, before,
          error, result, calls, pulls, fed>>

\* ------------------------------------------------------------------------
\* Bounds of the model
\* ------------------------------------------------------------------------

\* encode_plate calls made on one Plate
MaxCalls == 2

\* scene records the streams yield, over all the calls on one Plate
MaxRecords == 3

\* fixed-point units per 1.0 in a direction vector
Scale == 10000

\* ------------------------------------------------------------------------
\* Program constants
\* ------------------------------------------------------------------------

\* decode_plate's default rad_tol, 0.017453, in micro-radians
rad_tol_default == 17453

\* sightline_cell's footprint radius 1.415, as FootprintNum / FootprintDen
FootprintNum == 283

FootprintDen == 200

\* ------------------------------------------------------------------------
\* Arithmetic helpers
\* ------------------------------------------------------------------------

Abs(n) == IF n < 0 THEN 0 - n ELSE n

Sgn(n) == IF n < 0 THEN 0 - 1 ELSE IF n > 0 THEN 1 ELSE 0

Max2(a, b) == IF a >= b THEN a ELSE b

Min2(a, b) == IF a <= b THEN a ELSE b

Zero3 == <<0, 0, 0>>

Sub3(a, b) == <<a[1] - b[1], a[2] - b[2], a[3] - b[3]>>

Add3(a, b) == <<a[1] + b[1], a[2] + b[2], a[3] + b[3]>>

NormSq(v) == v[1] * v[1] + v[2] * v[2] + v[3] * v[3]

\* Newton's iteration for the integer square root, started at or above it.
RECURSIVE IsqrtFrom(_, _)
IsqrtFrom(n, y) ==
    LET z == (y + n \div y) \div 2
    IN  IF z >= y THEN y ELSE IsqrtFrom(n, z)

Isqrt(n) == IF n < 2 THEN n ELSE IsqrtFrom(n, Min2(n, 46340))

\* <<q, r>> with a * b = q * c + r and 0 <= r < c, for 0 <= a < 2^29,
\* b >= 0 and 0 < c < 2^29, computed without forming a * b (two bits of b
\* at a time).
RECURSIVE MulDivQR(_, _, _)
MulDivQR(a, b, c) ==
    IF b = 0 THEN <<0, 0>>
    ELSE LET h   == MulDivQR(a, b \div 4, c)
             add == (b % 4) * a
             r   == ((4 * h[2]) % c) + (add % c)
         IN  <<4 * h[1] + ((4 * h[2]) \div c) + (add \div c) + (r \div c), r % c>>

MulDiv(a, b, c) == MulDivQR(a, b, c)[1]

\* ------------------------------------------------------------------------
\* Helper functions of plate.py
\* ------------------------------------------------------------------------

\* np.linalg.norm(v) > 0 ? v / norm : zeros.  The vector is first scaled up
\* to the full working width so that the truncated norm costs no precision;
\* each component keeps its sign and is truncated toward zero, so that
\* unit_vector(-v) = -unit_vector(v) as in floating point.
unit_vector(v) ==
    LET m == Max2(Abs(v[1]), Max2(Abs(v[2]), Abs(v[3])))
    IN  IF m = 0 THEN Zero3
        ELSE LET k   == Max2(1, (2 * Scale) \div m)
                 w   == <<k * v[1], k * v[2], k * v[3]>>
                 mag == Isqrt(NormSq(w))
             IN  <<Sgn(w[1]) * ((Abs(w[1]) * Scale) \div mag),
                   Sgn(w[2]) * ((Abs(w[2]) * Scale) \div mag),
                   Sgn(w[3]) * ((Abs(w[3]) * Scale) \div mag)>>

\* find_mirror(a, b, mirror_point): the normalized sum of the two
\* normalized mirror-relative directions.
find_mirror(a, b, mirror_point) ==
    LET rel_a == Sub3(a, mirror_point)
        rel_b == Sub3(b, mirror_point)
    IN  unit_vector(Add3(unit_vector(rel_a), unit_vector(rel_b)))

\* np.dot of two direction vectors, at Scale * Scale units per 1.  A stored
\* direction is truncated to 1/Scale, so the plain sum of products would
\* carry a length error of about 1/Scale that doubles do not have (1e-16);
\* for unit vectors dot(u, v) = 1 - |u - v|^2 / 2 exactly, and that form is
\* used so that dot(u, u) = 1 as it is in the code.  A zero vector (the
\* degenerate result of unit_vector) gives the dot product 0.
dot(u, v) ==
    IF u = Zero3 \/ v = Zero3 THEN 0
    ELSE Scale * Scale - (NormSq(Sub3(u, v)) \div 2)

\* np.clip(c, -1.0, 1.0)
clip(c) == Min2(Max2(c, 0 - Scale * Scale), Scale * Scale)

\* The series 1 - t^2/2! + t^4/4! - ... from the term of index k on, t in
\* micro-radians, terms at Scale * Scale units per 1.
RECURSIVE CosSeries(_, _, _)
CosSeries(term, k, t) ==
    IF term = 0 THEN 0
    ELSE LET half == MulDiv(term, t, 1000000 * (2 * k + 1))
             next == MulDiv(half, t, 1000000 * (2 * k + 2))
         IN  term - CosSeries(next, k + 1, t)

\* cos(t) for t in micro-radians, at Scale * Scale units per 1; beyond the
\* range [0, pi] of arccos it is the bound that no (every) cosine reaches.
Cos(t) ==
    IF t < 0 THEN Scale * Scale + 1
    ELSE IF t >= 3141593 THEN 0 - Scale * Scale
    ELSE CosSeries(Scale * Scale, 0, t)

\* bulk_angle_between(unit_query, unit_data): one angle per row of
\* unit_data.  arccos is decreasing on [-1, 1], so each angle is held by its
\* clipped cosine, and "angle <= rad_tol" is "cosine >= cos(rad_tol)".
bulk_angle_between(unit_query, unit_data) ==
    [i \in DOMAIN unit_data |-> clip(dot(unit_data[i], unit_query))]

\* ------------------------------------------------------------------------
\* Inputs
\* ------------------------------------------------------------------------

\* Plate(start_x, start_y, size_x, size_y): square and non-square grids,
\* the 5 x 5 plate of the documented scenario, and non-positive sizes.
PlateArgs ==
    { <<0, 0, 2, 2>>, <<0, 0, 3, 2>>, <<0, 0, 2, 3>>, <<0 - 2, 0 - 2, 5, 5>>,
      <<0, 0, 0, 2>>, <<0, 0, 2, 0 - 1>>, <<0, 0, 0 - 1, 0>> }

ScenarioPlate == <<0 - 2, 0 - 2, 5, 5>>

\* source = camera = (50, 0, -50), keypoints = [(0, 0, 5)]
ScenarioScene ==
    [source |-> <<50, 0, 0 - 50>>, camera |-> <<50, 0, 0 - 50>>,
     frame |-> << <<0, 0, 5>> >>]

\* One keypoint lying on the plate at (1, 1), seen from (0, 0, -4).
CornerScene ==
    [source |-> <<0, 0, 0 - 4>>, camera |-> <<0, 0, 0 - 4>>,
     frame |-> << <<1, 1, 0>> >>]

\* Light apart from the viewer.  From the camera the sightlines of the
\* five keypoints cross z = 0 at (1/2, 0), nowhere (the keypoint is level
\* with the camera: parallel), at (1, 1), at (-35/30, -24/30), which is
\* 1.41461 from (0, 0), between sqrt(2) and 1.415, and at (1, 3).
SplitScene ==
    [source |-> <<3, 1, 0 - 5>>, camera |-> <<0 - 6, 0 - 24, 0 - 29>>,
     frame |-> << <<7, 24, 29>>, <<2, 2, 0 - 29>>, <<8, 26, 29>>,
                  <<0 - 1, 0, 1>>, <<1, 3, 0>> >>]

\* Source and camera on opposite sides of (0, 0, 0): the mirror there is
\* undefined and find_mirror gives the zero vector.
OpposedScene ==
    [source |-> <<1, 0, 0 - 1>>, camera |-> <<0 - 1, 0, 1>>,
     frame |-> << <<0, 0, 0>> >>]

Scenes == {ScenarioScene, CornerScene, SplitScene, OpposedScene}

\* rad_tol in micro-radians: the default, just below and just above pi/2,
\* and 2 radians.
RadTols == {rad_tol_default, 1570796, 1570797, 2000000}

\* (source, camera) pairs decode_plate is asked about: those encoded, the
\* scenario's camera turned 90 degrees about the origin, and both points on
\* the cell at (0, 0, 0).
Views ==
    { <<sc.source, sc.camera>> : sc \in Scenes }
    \cup { << <<50, 0, 0 - 50>>, <<0 - 50, 0, 0 - 50>> >>,
           << <<0, 0, 0>>, <<0, 0, 0>> >> }

\* cos(rad_tol) of each of them, computed once
CosOfTol == [t \in RadTols |-> Cos(t)]

\* (camera, keypoint) pairs sightline_cell is asked about: those of the
\* scenes, and a keypoint on z = 0 at (1, 5), beyond every grid
Sightlines ==
    UNION { { <<sc.camera, sc.frame[k]>> : k \in DOMAIN sc.frame } : sc \in Scenes }
    \cup { << <<0, 0, 0 - 4>>, <<1, 5, 0>> >> }

\* ------------------------------------------------------------------------
\* Cell and Plate
\* ------------------------------------------------------------------------

\* Cell(coords): the coords given and an empty n x 3 gradient array
Cell(coords) == [coords |-> coords, gradients |-> <<>>]

\* MakeCells with the two loops exchanged (for x ... for y ...)
MakeCellsColumnMajor(start_x, start_y, size_x, size_y) ==
    [k \in 1..(size_x * size_y) |->
        Cell(<<((k - 1) \div size_y) + start_x, ((k - 1) % size_y) + start_y, 0>>)]

\* Plate.__init__'s list comprehension: for y in range(size_y), for x in
\* range(size_x), so the cell of grid index (y, x) is at y * size_x + x
\* (position y * size_x + x + 1 of the sequence).
MakeCells(start_x, start_y, size_x, size_y) ==
    [k \in 1..(size_x * size_y) |->
        Cell(<<((k - 1) % size_x) + start_x, ((k - 1) \div size_x) + start_y, 0>>)]

NoPlate == [start_x |-> 0, start_y |-> 0, size_x |-> 0, size_y |-> 0]

\* What closest_cell and sightline_cell give back: a cell (by its position
\* in cells), None, or the IndexError of an out-of-range list index.
Found(i) == [tag |-> "cell", idx |-> i]

NoneCell == [tag |-> "None", idx |-> 0]

Raised == [tag |-> "IndexError", idx |-> 0]

\* int(round(n / d)) for d > 0: Python rounds a tie to the even neighbour.
Round(n, d) ==
    LET f == n \div d
        r == n % d
    IN  IF 2 * r < d THEN f
        ELSE IF 2 * r > d THEN f + 1
        ELSE IF f % 2 = 0 THEN f ELSE f + 1

\* Plate.closest_cell(point), point = <<X, Y, D>> standing for (X/D, Y/D).
\* The list index is adjusted_y * size_y + adjusted_x, as the code has it.
closest_cell(point) ==
    LET adjusted_x == Min2(Max2(Round(point[1], point[3]) - plate.start_x, 0),
                           plate.size_x - 1)
        adjusted_y == Min2(Max2(Round(point[2], point[3]) - plate.start_y, 0),
                           plate.size_y - 1)
        index      == adjusted_y * plate.size_y + adjusted_x
    IN  IF index >= Len(cells) THEN Raised ELSE Found(index + 1)

\* raw_coords with the keypoint dropped straight onto z = 0 (t = 0)
raw_coords_orthogonal(camera, keypoint) == <<keypoint[1], keypoint[2], 1>>

\* line_direction * t + keypoint with t = -keypoint.z / line_direction.z,
\* as the exact rational <<X, Y, D>>, D > 0 (camera.z # keypoint.z).
raw_coords(camera, keypoint) ==
    LET dz == camera[3] - keypoint[3]
        X  == keypoint[1] * dz - keypoint[3] * (camera[1] - keypoint[1])
        Y  == keypoint[2] * dz - keypoint[3] * (camera[2] - keypoint[2])
    IN  IF dz > 0 THEN <<X, Y, dz>> ELSE <<0 - X, 0 - Y, 0 - dz>>

\* |coords - raw|^2 as a multiple of 1 / D^2 (both lie on z = 0)
DistSq(coords, raw) ==
    (raw[1] - coords[1] * raw[3]) * (raw[1] - coords[1] * raw[3])
    + (raw[2] - coords[2] * raw[3]) * (raw[2] - coords[2] * raw[3])

\* np.linalg.norm(cell.coords - raw_coords) <= 1.415, decided on the
\* squares (a distance beyond sqrt(3) is decided without the product).
WithinFootprint(coords, raw) ==
    /\ DistSq(coords, raw) <= 3 * raw[3] * raw[3]
    /\ DistSq(coords, raw) * FootprintDen * FootprintDen
         <= FootprintNum * FootprintNum * raw[3] * raw[3]

\* sightline_cell without its test of the distance to the cell found
sightline_cell_unbounded(camera, keypoint) ==
    IF camera[3] = keypoint[3] THEN NoneCell
    ELSE closest_cell(raw_coords(camera, keypoint))

\* sightline_cell without its test for a parallel sightline: the division
\* by zero gives a crossing point that round() cannot take, and it raises
sightline_cell_unguarded(camera, keypoint) ==
    IF camera[3] = keypoint[3] THEN Raised
    ELSE LET raw  == raw_coords(camera, keypoint)
             cell == closest_cell(raw)
         IN  IF cell.tag = "IndexError" THEN cell
             ELSE IF WithinFootprint(cells[cell.idx].coords, raw) THEN cell
             ELSE NoneCell

\* Plate.sightline_cell(camera, keypoint)
sightline_cell(camera, keypoint) ==
    IF camera[3] = keypoint[3] THEN NoneCell
    ELSE LET raw  == raw_coords(camera, keypoint)
             cell == closest_cell(raw)
         IN  IF cell.tag = "IndexError" THEN cell
             ELSE IF WithinFootprint(cells[cell.idx].coords, raw) THEN cell
             ELSE NoneCell

\* new_gradients[cell].append(g) if cell in new_gradients, else
\* new_gradients[cell] = [g]
Stage(staged, i, g) ==
    IF i \in DOMAIN staged THEN [staged EXCEPT ![i] = Append(@, g)]
    ELSE [j \in (DOMAIN staged) \cup {i} |-> IF j = i THEN <<g>> ELSE staged[j]]

\* encode_plate's inner loop, for keypoint in frame.  acc carries the
\* staging dict, sightline_cell's result for each keypoint so far, and
\* whether closest_cell raised (which ends the loop and the call).
RECURSIVE ProcessFrame(_, _, _, _)
ProcessFrame(source, camera, frame, acc) ==
    IF frame = <<>> THEN acc
    ELSE LET cell == sightline_cell(camera, Head(frame))
             seen == Append(acc.resolved, cell)
         IN  IF cell.tag = "IndexError"
             THEN [acc EXCEPT !.resolved = seen, !.raised = TRUE]
             ELSE IF cell.tag = "None"
             THEN ProcessFrame(source, camera, Tail(frame),
                               [acc EXCEPT !.resolved = seen])
             ELSE ProcessFrame(source, camera, Tail(frame),
                               [acc EXCEPT
                                  !.resolved = seen,
                                  !.staged = Stage(@, cell.idx,
                                      find_mirror(source, camera,
                                                  cells[cell.idx].coords))])

\* The commit loop: cell.gradients = np.vstack(gradients) for every staged
\* cell; the other cells keep theirs.
Commit(cs, staged) ==
    [i \in DOMAIN cs |->
        IF i \in DOMAIN staged THEN [cs[i] EXCEPT !.gradients = staged[i]]
        ELSE cs[i]]

\* CellVisible with np.all in place of the guarded np.any
CellVisibleAll(cell, source, camera, cos_tol) ==
    LET expected == find_mirror(source, camera, cell.coords)
        angles   == bulk_angle_between(expected, cell.gradients)
    IN  \A i \in DOMAIN angles : angles[i] >= cos_tol

\* CellVisible with the comparison turned round (angles >= rad_tol)
CellVisibleFlipped(cell, source, camera, cos_tol) ==
    LET expected == find_mirror(source, camera, cell.coords)
        angles   == bulk_angle_between(expected, cell.gradients)
    IN  /\ Len(cell.gradients) > 0
        /\ \E i \in DOMAIN angles : angles[i] <= cos_tol

\* decode_plate's test of one cell: it has a gradient and some stored
\* gradient lies within the tolerance, given by its cosine, of the expected
\* mirror direction: len(cell.gradients) > 0 and np.any(angles <= rad_tol).
CellVisible(cell, source, camera, cos_tol) ==
    LET expected == find_mirror(source, camera, cell.coords)
        angles   == bulk_angle_between(expected, cell.gradients)
    IN  /\ Len(cell.gradients) > 0
        /\ \E i \in DOMAIN angles : angles[i] >= cos_tol

\* decode_plate's loop from the k-th cell on: the coords of the visible
\* cells, in list order.
RECURSIVE VisibleFrom(_, _, _, _, _)
VisibleFrom(cs, k, source, camera, cos_tol) ==
    IF k > Len(cs) THEN <<>>
    ELSE (IF CellVisible(cs[k], source, camera, cos_tol)
          THEN <<cs[k].coords>> ELSE <<>>)
         \o VisibleFrom(cs, k + 1, source, camera, cos_tol)

\* Plate.decode_plate(source, camera, rad_tol)
decode_plate(source, camera, rad_tol) ==
    LET cos_tol == CosOfTol[rad_tol]
    IN  VisibleFrom(cells, 1, source, camera, cos_tol)

Gradients(cs) == [i \in DOMAIN cs |-> cs[i].gradients]

NoRecord == [source |-> Zero3, camera |-> Zero3, frame |-> <<>>]

NoResult == [op |-> "none"]

\* Points closest_cell is asked about, as <<X, Y, D>>: on cells, half-way
\* between cells (rounding ties) and off the grid.
QueryPoints ==
    { <<0, 0, 1>>, <<1, 1, 1>>, <<1, 3, 2>>, <<3, 5, 2>>, <<5, 1, 2>>,
      <<0 - 1, 0 - 3, 2>>, <<4, 2, 1>> }

\* ------------------------------------------------------------------------
\* The state machine
\* ------------------------------------------------------------------------

Init ==
    /\ ctor_args = <<0, 0, 0, 0>>
    /\ plate = NoPlate
    /\ cells = <<>>
    /\ pc = "new"
    /\ new_gradients = <<>>
    /\ rec = NoRecord
    /\ resolved = <<>>
    /\ before = <<>>
    /\ error = "none"
    /\ result = NoResult
    /\ calls = 0
    /\ pulls = 0
    /\ fed = 0

\* Plate(start_x, start_y, size_x, size_y): raises ValueError for a
\* non-positive size, else sets the fields and builds the cells.
Construct(a) ==
    /\ pc = "new"
    /\ ctor_args' = a
    /\ IF a[3] <= 0 \/ a[4] <= 0
       THEN /\ error' = "ValueError"
            /\ pc' = "failed"
            /\ UNCHANGED <<plate, cells, before>>
       ELSE /\ plate' = [start_x |-> a[1], start_y |-> a[2],
                         size_x |-> a[3], size_y |-> a[4]]
            /\ cells' = MakeCells(a[1], a[2], a[3], a[4])
            /\ before' = Gradients(cells')
            /\ pc' = "idle"
            /\ UNCHANGED error
    /\ UNCHANGED <<new_gradients, rec, resolved, result, calls, pulls, fed>>

\* encode_plate is called: new_gradients = {}
EncodeBegin ==
    /\ pc = "idle"
    /\ result = NoResult
    /\ calls < MaxCalls
    /\ pc' = "pulling"
    /\ calls' = calls + 1
    /\ pulls' = 0
    /\ new_gradients' = <<>>
    /\ rec' = NoRecord
    /\ resolved' = <<>>
    /\ before' = Gradients(cells)
    /\ error' = "none"
    /\ UNCHANGED <<ctor_args, plate, cells, result, fed>>

\* for source, camera, frame in encoding_data: the stream yields a record
EncodePull(sc) ==
    /\ pc = "pulling"
    /\ fed < MaxRecords
    /\ pc' = "pulled"
    /\ pulls' = pulls + 1
    /\ fed' = fed + 1
    /\ rec' = sc
    /\ resolved' = <<>>
    /\ UNCHANGED <<ctor_args, plate, cells, new_gradients, before, error,
                   result, calls>>

\* EncodeProcess appending to the cells at once instead of staging
EncodeProcessDirect ==
    /\ pc = "pulled"
    /\ LET out == ProcessFrame(rec.source, rec.camera, rec.frame,
                               [staged |-> <<>>, resolved |-> <<>>,
                                raised |-> FALSE])
       IN  /\ resolved' = out.resolved
           /\ cells' = [i \in DOMAIN cells |->
                          IF i \in DOMAIN out.staged
                          THEN [cells[i] EXCEPT !.gradients = @ \o out.staged[i]]
                          ELSE cells[i]]
           /\ IF out.raised
              THEN pc' = "idle" /\ error' = "IndexError"
              ELSE pc' = "pulling" /\ UNCHANGED error
    /\ UNCHANGED <<ctor_args, plate, new_gradients, rec, before, result, calls,
                   pulls, fed>>

\* the body of the outer loop, for the record pulled: every keypoint of the
\* frame is resolved and staged; an IndexError from closest_cell leaves
\* encode_plate at once.
EncodeProcess ==
    /\ pc = "pulled"
    /\ LET out == ProcessFrame(rec.source, rec.camera, rec.frame,
                               [staged |-> new_gradients, resolved |-> <<>>,
                                raised |-> FALSE])
       IN  /\ resolved' = out.resolved
           /\ new_gradients' = out.staged
           /\ IF out.raised
              THEN pc' = "idle" /\ error' = "IndexError"
              ELSE pc' = "pulling" /\ UNCHANGED error
    /\ UNCHANGED <<ctor_args, plate, cells, rec, before, result, calls, pulls,
                   fed>>

\* the stream raises instead of yielding: encode_plate is left at once
StreamRaise ==
    /\ pc = "pulling"
    /\ pc' = "idle"
    /\ error' = "StreamError"
    /\ UNCHANGED <<ctor_args, plate, cells, new_gradients, rec, resolved,
                   before, result, calls, pulls, fed>>

\* the stream is exhausted: the queued changes are resolved
EncodeCommit ==
    /\ pc = "pulling"
    /\ cells' = Commit(cells, new_gradients)
    /\ pc' = "idle"
    /\ UNCHANGED <<ctor_args, plate, new_gradients, rec, resolved, before,
                   error, result, calls, pulls, fed>>

\* decode_plate(source, camera, rad_tol)
Decode(view, rad_tol) ==
    /\ pc = "idle"
    /\ result = NoResult
    /\ result' = [op |-> "decode_plate", source |-> view[1], camera |-> view[2],
                  rad_tol |-> rad_tol,
                  visible_points |-> decode_plate(view[1], view[2], rad_tol)]
    /\ UNCHANGED <<ctor_args, plate, cells, pc, new_gradients, rec, resolved,
                   before, error, calls, pulls, fed>>

\* closest_cell(point)
ClosestCell(point) ==
    /\ pc = "idle"
    /\ result = NoResult
    /\ result' = [op |-> "closest_cell", point |-> point,
                  cell |-> closest_cell(point)]
    /\ UNCHANGED <<ctor_args, plate, cells, pc, new_gradients, rec, resolved,
                   before, error, calls, pulls, fed>>

\* sightline_cell(camera, keypoint)
SightlineCell(q) ==
    /\ pc = "idle"
    /\ result = NoResult
    /\ result' = [op |-> "sightline_cell", camera |-> q[1], keypoint |-> q[2],
                  cell |-> sightline_cell(q[1], q[2])]
    /\ UNCHANGED <<ctor_args, plate, cells, pc, new_gradients, rec, resolved,
                   before, error, calls, pulls, fed>>

\* the caller takes the result of the query
Return ==
    /\ result # NoResult
    /\ result' = NoResult
    /\ UNCHANGED <<ctor_args, plate, cells, pc, new_gradients, rec, resolved,
                   before, error, calls, pulls, fed>>

Next ==
    \/ \E a \in PlateArgs : Construct(a)
    \/ EncodeBegin
    \/ \E sc \in Scenes : EncodePull(sc)
    \/ EncodeProcess
    \/ StreamRaise
    \/ EncodeCommit
    \/ \E view \in Views, rad_tol \in RadTols : Decode(view, rad_tol)
    \/ \E point \in QueryPoints : ClosestCell(point)
    \/ \E q \in Sightlines : SightlineCell(q)
    \/ Return

Spec == Init /\ [][Next]_vars

\* ------------------------------------------------------------------------
\* Properties
\* ------------------------------------------------------------------------

\* the gradients staged for cell i by the current (or last) encode call
StagedAt(staged, i) == IF i \in DOMAIN staged THEN staged[i] ELSE <<>>

\* the last encode_plate call returned (its stream ended and it committed)
Committed == pc = "idle" /\ calls > 0 /\ error = "none"

\* the set of points of a sequence of points
PointsOf(seq) == { seq[k] : k \in DOMAIN seq }

\* the keypoint's sightline is parallel to the plate
Parallel(camera, keypoint) == camera[3] = keypoint[3]

\* the crossing point lies more than sqrt(2) from the cell at coords
BeyondSqrt2(coords, raw) == DistSq(coords, raw) > 2 * raw[3] * raw[3]

\* the crossing point lies more than 1.415 from the cell at coords
Beyond1415(coords, raw) == ~WithinFootprint(coords, raw)

\* the cells res says the keypoints resolved to are just those given
HitsOf(res, i) == Cardinality({ k \in DOMAIN res : res[k] = Found(i) })

\* C1: after every encode call that returns, each cell's gradients are its
\* gradients before the call followed by the gradients the call staged for
\* it (one per keypoint resolved to it, in arrival order).
C1_EncodeAdditive ==
    Committed =>
        \A i \in DOMAIN cells :
            cells[i].gradients = before[i] \o StagedAt(new_gradients, i)

\* the one scene record the only encode call was fed has a single keypoint,
\* source and camera at negative z, and its sightline crosses z = 0 exactly
\* at the coords of cell i
SingleSceneAt(i) ==
    /\ pc = "idle"
    /\ calls = 1
    /\ pulls = 1
    /\ error # "StreamError"
    /\ Len(rec.frame) = 1
    /\ rec.source[3] < 0
    /\ rec.camera[3] < 0
    /\ ~Parallel(rec.camera, rec.frame[1])
    /\ LET raw == raw_coords(rec.camera, rec.frame[1])
       IN  /\ raw[1] = cells[i].coords[1] * raw[3]
           /\ raw[2] = cells[i].coords[2] * raw[3]

\* decode_plate was asked about the (source, camera) of rec at rad_tol
DecodedSameView(rad_tol) ==
    /\ result.op = "decode_plate"
    /\ result.source = rec.source
    /\ result.camera = rec.camera
    /\ result.rad_tol = rad_tol

\* C2: round trip: a single scene whose one keypoint lies on cell c's
\* sightline is encoded without failing, and decoding with the same source
\* and camera at the default tolerance returns c's coords.
C2_RoundTrip ==
    \A i \in DOMAIN cells :
        SingleSceneAt(i) =>
            /\ error = "none"
            /\ DecodedSameView(rad_tol_default) =>
                   cells[i].coords \in PointsOf(result.visible_points)

\* C3: closest_cell returns, without failing, the cell whose coords are the
\* rounded point clamped to the grid on each axis.
C3_ClosestCellClamps ==
    result.op = "closest_cell" =>
        /\ result.cell.tag = "cell"
        /\ cells[result.cell.idx].coords =
             << plate.start_x
                  + Min2(Max2(Round(result.point[1], result.point[3])
                              - plate.start_x, 0), plate.size_x - 1),
                plate.start_y
                  + Min2(Max2(Round(result.point[2], result.point[3])
                              - plate.start_y, 0), plate.size_y - 1),
                0 >>

\* the scenario: on Plate(-2, -2, 5, 5) the first encode call was fed the one
\* scene ScenarioScene and returned
ScenarioEncoded ==
    /\ ctor_args = ScenarioPlate
    /\ Committed
    /\ calls = 1
    /\ pulls = 1
    /\ rec = ScenarioScene

\* C4 as claimed: in the scenario the keypoint resolves to the cell at
\* (0, 0, 0) and decoding the same view at the default tolerance returns
\* exactly [(0, 0, 0)].
C4_ScenarioAsClaimed ==
    ScenarioEncoded =>
        /\ Len(resolved) = 1
        /\ resolved[1].tag = "cell"
        /\ cells[resolved[1].idx].coords = Zero3
        /\ DecodedSameView(rad_tol_default) =>
               result.visible_points = << Zero3 >>

\* C4 as amended: in the scenario the sightline crosses z = 0 at
\* (50/11, 0, 0), the keypoint resolves to no cell, no gradient is stored,
\* and decoding the same view at the default tolerance returns [].
C4_ScenarioDropped ==
    ScenarioEncoded =>
        /\ raw_coords(rec.camera, rec.frame[1]) = <<250, 0, 55>>
        /\ resolved = << NoneCell >>
        /\ \A i \in DOMAIN cells : cells[i].gradients = <<>>
        /\ DecodedSameView(rad_tol_default) => result.visible_points = <<>>

C4_Witness == ScenarioEncoded /\ DecodedSameView(rad_tol_default)

\* the keypoint's sightline crosses z = 0 more than sqrt(2) from every cell
FarSqrt2(camera, keypoint) ==
    /\ ~Parallel(camera, keypoint)
    /\ \A i \in DOMAIN cells :
           BeyondSqrt2(cells[i].coords, raw_coords(camera, keypoint))

\* the keypoint's sightline crosses z = 0 more than 1.415 from every cell
Far1415(camera, keypoint) ==
    /\ ~Parallel(camera, keypoint)
    /\ \A i \in DOMAIN cells :
           Beyond1415(cells[i].coords, raw_coords(camera, keypoint))

\* processing a record stages one gradient for each keypoint that resolved
\* to a cell, at that cell, and nothing else
StagesOnlyHits ==
    (pc = "pulled" /\ pc' # "pulled") =>
        \A i \in DOMAIN cells :
            StagedAt(new_gradients', i) =
                StagedAt(new_gradients, i)
                \o [n \in 1..HitsOf(resolved', i) |->
                       find_mirror(rec.source, rec.camera, cells[i].coords)]

\* C5 as claimed: a keypoint whose crossing point lies more than sqrt(2)
\* from every cell gets no cell from sightline_cell, asked directly or by
\* encode.
C5_DropsBeyondSqrt2 ==
    /\ (result.op = "sightline_cell"
        /\ FarSqrt2(result.camera, result.keypoint))
           => result.cell = NoneCell
    /\ \A k \in DOMAIN resolved :
           FarSqrt2(rec.camera, rec.frame[k]) => resolved[k] = NoneCell

\* the state part of C5 as amended: such a keypoint yields no cell (None,
\* or the IndexError of closest_cell)
DropsBeyond1415 ==
    /\ (result.op = "sightline_cell"
        /\ Far1415(result.camera, result.keypoint))
           => result.cell.tag # "cell"
    /\ \A k \in DOMAIN resolved :
           Far1415(rec.camera, rec.frame[k]) => resolved[k].tag # "cell"

\* C5 as amended: a keypoint whose crossing point lies more than 1.415 from
\* every cell yields no cell from sightline_cell, and encode stages no
\* gradient for it.
C5_DropsBeyond1415 == [](DropsBeyond1415) /\ [][StagesOnlyHits]_vars

C5_Witness ==
    /\ pc = "pulling"
    /\ \E k \in DOMAIN resolved :
           /\ Far1415(rec.camera, rec.frame[k])
           /\ resolved[k] = NoneCell
    /\ \E k \in DOMAIN resolved : resolved[k].tag = "cell"

\* C6: every point decode_plate returns is the coords of a cell that holds
\* a gradient; on a Plate never encoded it returns nothing.
C6_DecodeOnlyEngraved ==
    result.op = "decode_plate" =>
        /\ \A p \in PointsOf(result.visible_points) :
               \E i \in DOMAIN cells :
                   cells[i].coords = p /\ Len(cells[i].gradients) > 0
        /\ calls = 0 => result.visible_points = <<>>

C6_Witness ==
    /\ result.op = "decode_plate"
    /\ result.visible_points # <<>>
    /\ \E i \in DOMAIN cells : cells[i].gradients = <<>>

\* the state part of C7: sightline_cell gives None for a parallel sightline,
\* asked directly or by encode
ParallelIsNone ==
    /\ (result.op = "sightline_cell"
        /\ Parallel(result.camera, result.keypoint)) => result.cell = NoneCell
    /\ \A k \in DOMAIN resolved :
           Parallel(rec.camera, rec.frame[k]) => resolved[k] = NoneCell

\* the step part of C7: processing a record goes through its whole frame
\* and on to the next pull, unless closest_cell raised at the last keypoint
\* it came to; a parallel keypoint stops nothing
GoesOn ==
    (pc = "pulled" /\ pc' # "pulled") =>
        \/ /\ Len(resolved') = Len(rec.frame)
           /\ \A k \in DOMAIN resolved' : resolved'[k] # Raised
           /\ pc' = "pulling"
        \/ /\ resolved' # <<>>
           /\ resolved'[Len(resolved')] = Raised
           /\ ~Parallel(rec.camera, rec.frame[Len(resolved')])
           /\ pc' = "idle"
           /\ error' = "IndexError"

\* C7: a keypoint level with the camera gets None from sightline_cell, no
\* gradient is staged for it, and encode goes on with the keypoints and
\* records that follow.
C7_ParallelAbsorbed ==
    [](ParallelIsNone) /\ [][GoesOn /\ StagesOnlyHits]_vars

C7_Witness ==
    /\ pc = "pulling"
    /\ pulls = 2
    /\ \E k \in DOMAIN resolved :
           /\ Parallel(rec.camera, rec.frame[k])
           /\ resolved[k] = NoneCell
           /\ \E j \in DOMAIN resolved : j > k /\ resolved[j].tag = "cell"

\* C8: Plate(...) raises exactly for a non-positive size and then makes no
\* Plate; otherwise it makes size_x * size_y cells, the one of grid index
\* (y, x) at (start_x + x, start_y + y, 0), each with no gradient.
C8_Construction ==
    pc # "new" =>
        IF ctor_args[3] <= 0 \/ ctor_args[4] <= 0
        THEN /\ pc = "failed"
             /\ error = "ValueError"
             /\ plate = NoPlate
             /\ cells = <<>>
        ELSE /\ pc # "failed"
             /\ error # "ValueError"
             /\ plate = [start_x |-> ctor_args[1], start_y |-> ctor_args[2],
                         size_x |-> ctor_args[3], size_y |-> ctor_args[4]]
             /\ Len(cells) = ctor_args[3] * ctor_args[4]
             /\ \A y \in 0..(ctor_args[4] - 1), x \in 0..(ctor_args[3] - 1) :
                    cells[y * ctor_args[3] + x + 1].coords =
                        <<ctor_args[1] + x, ctor_args[2] + y, 0>>
             /\ calls = 0 => \A i \in DOMAIN cells : cells[i].gradients = <<>>

C8_Witness ==
    /\ pc = "idle"
    /\ calls = 0
    /\ plate.size_x > plate.size_y
    /\ result = NoResult

\* no cell whose expected mirror direction for the source and camera that
\* decode_plate was asked about is the zero vector is among those returned
DegenerateExcluded ==
    \A p \in PointsOf(result.visible_points) :
        find_mirror(result.source, result.camera, p) # Zero3

\* C9 as claimed: at every rad_tol, a cell whose expected direction is the
\* zero vector is not returned, whatever it stores.
C9_DegenerateNeverMatches ==
    result.op = "decode_plate" => DegenerateExcluded

\* C9 as amended: at every rad_tol below pi/2 (1570796 micro-radians at
\* most), a cell whose expected direction is the zero vector is not
\* returned, whatever it stores.
C9_DegenerateBelowRightAngle ==
    (result.op = "decode_plate" /\ result.rad_tol <= 1570796)
        => DegenerateExcluded

C9_Witness ==
    /\ result.op = "decode_plate"
    /\ result.rad_tol = 1570796
    /\ \E i \in DOMAIN cells :
           /\ find_mirror(result.source, result.camera, cells[i].coords) = Zero3
           /\ Len(cells[i].gradients) > 1
           /\ cells[i].coords \notin PointsOf(result.visible_points)

\* C10: while an encode call is pulling and processing records, and after
\* it was left by an exception, every cell's gradients are what they were
\* when the call began.
C10_CommitsAfterStream ==
    /\ pc \in {"pulling", "pulled"} => Gradients(cells) = before
    /\ (pc = "idle" /\ error \in {"StreamError", "IndexError"})
           => Gradients(cells) = before

C10_Witness ==
    /\ pc = "idle"
    /\ error = "IndexError"
    /\ DOMAIN new_gradients # {}
    /\ \E i \in DOMAIN cells : before[i] # <<>>

====
